---- MODULE Spec2Model ----
(***************************************************************************)
(* RcMap / ObjectRef: the reference-count map of                           *)
(* src/content/blog/RcMapRust.md, as a state machine.                      *)
(*                                                                         *)
(* Threads call RcMap::get, RcMap::insert and drop ObjectRefs.  Every call *)
(* of the DashMap API (alter, get, insert, remove_if) is one atomic step   *)
(* (DashMap takes the shard lock for the duration of the call); the steps  *)
(* of one RcMap operation interleave freely with the steps of the others.  *)
(***************************************************************************)
EXTENDS Integers, FiniteSets, Sequences, Bags, TLC

(* ---- bounds ---------------------------------------------------------- *)
NumThreads == 2
NumKeys == 2
NumValues == 2
MaxHandles == 3
MaxSeqCalls == 5
MaxGetDropCalls == 6
MaxTeardownCalls == 3
MaxRaceCalls == 5

Keys == 1..NumKeys
Values == 1..NumValues

VARIABLES
    store,     \* the DashMap<K, (isize, V)> behind RcMap.inner: key -> entry
    alive,     \* the RcMap (the strong owner of the Arc) has not been dropped
    handles,   \* the ObjectRefs that exist and are not being dropped (a bag)
    ops,       \* the calls in progress, one per busy thread (a bag): the next
               \* statement of the call and its arguments and locals
    lin,       \* (history) the atomic executions that explain what the calls
               \* have returned so far: see "linearizations" below
    hist       \* (history) the calls and returns so far, in order
               \* (lin and hist are recorded by the specifications that observe
               \* the calls: SpecLin, and SpecSeq, SpecGetDrop, SpecTeardown)

vars == <<store, alive, handles, ops, lin, hist>>

(* ---- DashMap --------------------------------------------------------- *)

\* the entries of a map
Range(m) == {m[x] : x \in DOMAIN m}

alter_AllKeys(m, k, f) ==
    IF k \in DOMAIN m THEN [x \in DOMAIN m |-> f[m[x]]] ELSE m

alter_OrInsert(m, k, f) ==
    IF k \in DOMAIN m THEN [m EXCEPT ![k] = f[m[k]]]
    ELSE [x \in DOMAIN m \cup {k} |->
             IF x = k THEN [count |-> 0, value |-> 0, inc |-> 0] ELSE m[x]]

\* DashMap::alter: applies the closure f to the entry of k when there is one,
\* else does nothing
alter(m, k, f) ==
    IF k \in DOMAIN m THEN [m EXCEPT ![k] = f[m[k]]] ELSE m

remove_if_Never(m, k, p) == m

\* DashMap::remove_if: removes the entry of k when there is one and the
\* closure p holds of it
remove_if(m, k, p) ==
    IF k \in DOMAIN m /\ p[m[k]]
    THEN [x \in DOMAIN m \ {k} |-> m[x]]
    ELSE m

\* DashMap::insert: writes the entry of k, replacing the previous one if any
dash_insert(m, k, e) ==
    [x \in DOMAIN m \cup {k} |-> IF x = k THEN e ELSE m[x]]

\* DashMap::new
EmptyMap == [x \in {} |-> 0]

(* ---- the closures and constructors of the source ----------------------- *)

GetAlterFn_NoIncrement(e) == e

GetAlterFn_Twice(e) == [e EXCEPT !.count = @ + 2]

\* |_, (count, value)| (count + 1, value)          (RcMap::get)
GetAlterFn(e) == [e EXCEPT !.count = @ + 1]

DropAlterFn_NoDecrement(e) == e

DropAlterFn_Twice(e) == [e EXCEPT !.count = @ - 2]

\* |_, (count, value)| (count - 1, value)          (ObjectRef::drop)
DropAlterFn(e) == [e EXCEPT !.count = @ - 1]

DropRemovePred_Negative(e) == e.count < 0

DropRemovePred_AtMostOne(e) == e.count <= 1

\* |_, (count, _)| *count <= 0                     (ObjectRef::drop)
DropRemovePred(e) == e.count <= 0

\* the three closures, as passed to alter and remove_if on the map m
GetAlter_closure(m) == [e \in Range(m) |-> GetAlterFn(e)]
DropAlter_closure(m) == [e \in Range(m) |-> DropAlterFn(e)]
DropRemove_closure(m) == [e \in Range(m) |-> DropRemovePred(e)]

NewEntry_CountTwo(v, inc) == [count |-> 2, value |-> v, inc |-> inc]

NewEntry_CountZero(v, inc) == [count |-> 0, value |-> v, inc |-> inc]

\* (1, value.clone()); inc (history) names this incarnation of the key's entry
NewEntry(v, inc) == [count |-> 1, value |-> v, inc |-> inc]

\* ObjectRef { key, parent_ref, value }; inc (history) is the incarnation of
\* the entry the value was taken from.  parent_ref always points to the one
\* DashMap of the model
ObjectRef(k, v, inc) == [key |-> k, value |-> v, inc |-> inc]

NoRef == [key |-> 0, value |-> 0, inc |-> 0]

\* a call of get, insert or drop in progress.  pc: its next statement; key,
\* val: the arguments of get / insert; cur: `self` of drop; bumped (history):
\* the incarnation that the alter of the running get incremented (0: none)
Op(p, k, v, ref, b) == [pc |-> p, key |-> k, val |-> v, cur |-> ref, bumped |-> b]

(* ---- derived state ---------------------------------------------------- *)

Running == BagToSet(ops)

\* number of elements of bag B, copies counted, that are in the set S
RECURSIVE CountIn(_, _)
CountIn(B, S) ==
    IF S = {} THEN 0
    ELSE LET x == CHOOSE y \in S : TRUE
         IN CopiesIn(x, B) + CountIn(B, S \ {x})

\* the calls holding the Arc returned by parent_ref.upgrade()
IsUpgraded(o) == o.pc \in {"drop_alter", "drop_remove"}
NumUpgraded_AndHandles ==
    CountIn(ops, {o \in Running : IsUpgraded(o)}) + BagCardinality(handles)

\* the strong references to the DashMap besides the RcMap's own: ObjectRefs
\* hold a Weak, which does not count
NumUpgraded == CountIn(ops, {o \in Running : IsUpgraded(o)})

MapExists_Always == TRUE

\* the DashMap allocation exists: some strong reference to it is left
MapExists == alive \/ NumUpgraded > 0

Guards_KeptByInsert(o) == IF o.pc = "ins_write" THEN {o.key} ELSE {}

\* the keys whose entry the call o holds a DashMap guard on (a Ref: the read
\* lock of the entry's shard) between two of its steps.  None: alter, insert
\* and remove_if lock inside the call and unlock before they return, and
\* value_ref, the Ref that inner.get returns in RcMap::get, is dropped when get
\* returns, within the read step (only the clone of the value is made under
\* it); the ObjectRef that get returns holds the cloned value, not the Ref
Guards(o) == {}

\* a write to the entry of k (alter, insert, remove_if) has to wait: some call
\* (of this thread or another) holds a guard on it
Locked(k) == \E o \in Running : k \in Guards(o)

\* the calls of RcMap::get and RcMap::insert in progress (they borrow the RcMap)
InRcMapCall(o) == o.pc \in {"get_read", "ins_read", "ins_write"}

\* no operation in flight
Quiescent == ops = EmptyBag

NumHandles == BagCardinality(handles)

\* number of ObjectRefs of key k that exist and are not being dropped
LiveHandles(k) == CountIn(handles, {h \in BagToSet(handles) : h.key = k})

StoredCount(k) == IF k \in DOMAIN store THEN store[k].count ELSE 0

\* the name (history) of a new incarnation of the entry of k: the least one
\* that nothing which still exists refers to
FreshInc(k) ==
    LET used == {store[x].inc : x \in DOMAIN store \cap {k}}
                \cup {h.inc : h \in {x \in BagToSet(handles) : x.key = k}}
                \cup {o.cur.inc : o \in {x \in Running : x.cur.key = k}}
                \cup {o.bumped : o \in {x \in Running : x.key = k}}
    IN CHOOSE i \in 1..(Cardinality(used) + 1) : i \notin used

Add(B, x) == B (+) SetToBag({x})
Del(B, x) == B (-) SetToBag({x})

(* ---- the operations run as one atomic step each ------------------------ *)

\* what a call returns
Ret(tag, v) == [tag |-> tag, value |-> v]

\* RcMap::get run without interruption: the map afterwards, and the result
SeqGet(m, k) ==
    LET m1 == alter(m, k, GetAlter_closure(m))
    IN [map |-> m1,
        ret |-> IF k \in DOMAIN m1 THEN Ret("some", m1[k].value) ELSE Ret("none", 0)]

\* RcMap::insert run without interruption
SeqInsert(m, k, v) ==
    LET g == SeqGet(m, k)
    IN IF g.ret.tag = "some"
       THEN [map |-> g.map, ret |-> Ret("exists", g.ret.value)]
       ELSE [map |-> dash_insert(g.map, k, NewEntry(v, 0)), ret |-> Ret("ok", v)]

\* ObjectRef::drop run without interruption, the DashMap existing
SeqDrop(m, k) ==
    [map |-> LET m1 == alter(m, k, DropAlter_closure(m))
             IN remove_if(m1, k, DropRemove_closure(m1)),
     ret |-> Ret("done", 0)]

(* ---- linearizations (history) ------------------------------------------ *)

\* lin is the set of the configurations [abs, pend] such that the calls made
\* so far, each taking effect atomically at some point between its start and
\* now (or not yet, if it has not returned), in some order, return what the
\* calls that have returned did return, and leave the map abs.  pend: the
\* calls that have not returned, with their result if they took effect.
\* A return is matched with any pending call of the same kind and arguments;
\* when lin is empty, no linearization of the calls exists.

Pending(kind, k, v) == [kind |-> kind, key |-> k, val |-> v, ret |-> Ret("pending", 0)]

Atomic(p, m) ==
    CASE p.kind = "get" -> SeqGet(m, p.key)
      [] p.kind = "insert" -> SeqInsert(m, p.key, p.val)
      [] p.kind = "drop" -> SeqDrop(m, p.key)

\* the configurations reached from c by letting one more call take effect
LinOne(c) ==
    {LET r == Atomic(p, c.abs)
     IN [abs |-> r.map, pend |-> Add(Del(c.pend, p), [p EXCEPT !.ret = r.ret])]
     : p \in {x \in BagToSet(c.pend) : x.ret.tag = "pending"}}

RECURSIVE LinClosure(_)
LinClosure(L) ==
    LET N == L \cup UNION {LinOne(c) : c \in L}
    IN IF N = L THEN L ELSE LinClosure(N)

\* a call starts
LinCall(L, kind, k, v) ==
    LinClosure({[c EXCEPT !.pend = Add(@, Pending(kind, k, v))] : c \in L})

\* a call returns r
LinReturn(L, kind, k, v, r) ==
    LET p == [kind |-> kind, key |-> k, val |-> v, ret |-> r]
    IN {[c EXCEPT !.pend = Del(@, p)] : c \in {x \in L : BagIn(p, x.pend)}}

\* the entries of a map without their history field
Entries(m) == [k \in DOMAIN m |-> <<m[k].count, m[k].value>>]

(* ---- the arguments of the calls ----------------------------------------- *)

\* RcMap is generic in K: Hash + Eq + Clone and V: Clone: the code only compares
\* keys and copies values, so the keys that occur nowhere in the state are
\* interchangeable, and so are the values.  A call takes as its key any key
\* that occurs in the state or the least one that does not; values likewise

UsedKeys ==
    DOMAIN store
    \cup {h.key : h \in BagToSet(handles)}
    \cup {o.key : o \in Running} \cup {o.cur.key : o \in Running}
    \cup {hist[i].key : i \in DOMAIN hist}
    \cup UNION {DOMAIN c.abs \cup {p.key : p \in BagToSet(c.pend)} : c \in lin}

UsedValues ==
    {e.value : e \in Range(store)}
    \cup {h.value : h \in BagToSet(handles)}
    \cup {o.val : o \in Running} \cup {o.cur.value : o \in Running}
    \cup {hist[i].val : i \in DOMAIN hist} \cup {hist[i].ret.value : i \in DOMAIN hist}
    \cup UNION {{e.value : e \in Range(c.abs)}
                \cup {p.val : p \in BagToSet(c.pend)}
                \cup {p.ret.value : p \in BagToSet(c.pend)} : c \in lin}

CallKeys == {k \in Keys : k \in UsedKeys \/ \A j \in 1..(k - 1) : j \in UsedKeys}

CallValues == {v \in Values : v \in UsedValues \/ \A j \in 1..(v - 1) : j \in UsedValues}

(* ---- initial state: RcMap::new() -------------------------------------- *)

Init ==
    /\ store = EmptyMap
    /\ alive = TRUE
    /\ handles = EmptyBag
    /\ ops = EmptyBag
    /\ lin = {[abs |-> EmptyMap, pend |-> EmptyBag]}
    /\ hist = << >>

(* ---- RcMap::get -------------------------------------------------------- *)

\* a thread may start a call: one is free, the RcMap exists, and the model's
\* bound on the ObjectRefs (those that exist, those being dropped and those the
\* running calls may return) leaves room for the one this call may return
CanCall ==
    /\ BagCardinality(ops) < NumThreads
    /\ alive
    /\ NumHandles + BagCardinality(ops) < MaxHandles

\* the first statement of get (and of insert, which starts by calling get):
\* self.inner.alter(&key, |_, (count, value)| (count + 1, value))
AlterStep(k, v, next) ==
    /\ ~Locked(k)
    /\ store' = alter(store, k, GetAlter_closure(store))
    /\ ops' = Add(ops, Op(next, k, v, NoRef,
                          IF k \in DOMAIN store THEN store[k].inc ELSE 0))

GetAlter(k) ==
    /\ CanCall
    /\ AlterStep(k, 0, "get_read")
    /\ UNCHANGED <<alive, handles>>

\* the call an Op record belongs to
KindOf(o) ==
    CASE o.pc = "get_read" -> "get"
      [] o.pc \in {"ins_read", "ins_write"} -> "insert"
      [] OTHER -> "drop"

\* what the read of get finds: Some(ObjectRef) with the stored value (for
\* insert: Err(AlreadyExists) with it), or None
ReadRet(o) ==
    IF o.key \in DOMAIN store
    THEN Ret(IF o.pc = "get_read" THEN "some" ELSE "exists", store[o.key].value)
    ELSE Ret("none", 0)

\* the rest of get: let Some(value_ref) = self.inner.get(&key) else { return None };
\* Some(ObjectRef { key, parent_ref, value: value.clone() })
\* found: the call returns the ObjectRef; else it returns (next = "idle") or
\* goes on at the statement next
ReadStep(o, next) ==
    IF o.key \in DOMAIN store
    THEN /\ handles' = Add(handles, ObjectRef(o.key, store[o.key].value, store[o.key].inc))
         /\ ops' = Del(ops, o)
    ELSE /\ handles' = handles
         /\ ops' = IF next = "idle" THEN Del(ops, o)
                   ELSE Add(Del(ops, o), [o EXCEPT !.pc = next, !.bumped = 0])

GetRead(o) ==
    /\ o.pc = "get_read"
    /\ ReadStep(o, "idle")
    /\ UNCHANGED <<store, alive>>

(* ---- RcMap::insert ----------------------------------------------------- *)

\* if let Some(object_ref) = self.get(key.clone()): the alter of that get
InsertAlter(k, v) ==
    /\ CanCall
    /\ AlterStep(k, v, "ins_read")
    /\ UNCHANGED <<alive, handles>>

\* the read of that get; Some(object_ref) returns
\* Err(InsertError::AlreadyExists(key, object_ref))
InsertRead(o) ==
    /\ o.pc = "ins_read"
    /\ ReadStep(o, "ins_write")
    /\ UNCHANGED <<store, alive>>

InsertWrite_Aliasing(o) ==
    /\ o.pc = "ins_write"
    /\ LET inc == FreshInc(o.key)
           stale == {h \in BagToSet(handles) : h.key = o.key /\ h.value # o.val}
           new == ObjectRef(o.key, o.val, inc)
       IN /\ store' = dash_insert(store, o.key, NewEntry(o.val, inc))
          /\ handles' = IF stale = {} THEN Add(handles, new)
                        ELSE LET h == CHOOSE x \in stale : TRUE
                             IN Add(Add(Del(handles, h), [h EXCEPT !.value = o.val]), new)
    /\ ops' = Del(ops, o)
    /\ UNCHANGED alive

\* let _prev = self.inner.insert(key.clone(), (1, value.clone()));
\* Ok(ObjectRef { key, parent_ref, value })
InsertWrite(o) ==
    /\ o.pc = "ins_write"
    /\ ~Locked(o.key)
    /\ LET inc == FreshInc(o.key)
       IN /\ store' = dash_insert(store, o.key, NewEntry(o.val, inc))
          /\ handles' = Add(handles, ObjectRef(o.key, o.val, inc))
    /\ ops' = Del(ops, o)
    /\ UNCHANGED alive

(* ---- Drop for ObjectRef ------------------------------------------------ *)

\* let Some(map) = self.parent_ref.upgrade() else { return; };
DropUpgrade(h) ==
    /\ BagCardinality(ops) < NumThreads
    /\ handles' = Del(handles, h)
    /\ ops' = IF MapExists THEN Add(ops, Op("drop_alter", 0, 0, h, 0)) ELSE ops
    /\ UNCHANGED <<store, alive>>

\* map.alter(&self.key, |_, (count, value)| (count - 1, value));
DropAlter(o) ==
    /\ o.pc = "drop_alter"
    /\ ~Locked(o.cur.key)
    /\ store' = alter(store, o.cur.key, DropAlter_closure(store))
    /\ ops' = Add(Del(ops, o), [o EXCEPT !.pc = "drop_remove"])
    /\ UNCHANGED <<alive, handles>>

DropRemove_Skipped(o) ==
    /\ o.pc = "drop_remove"
    /\ store' = IF alive \/ NumUpgraded > 1 THEN store ELSE EmptyMap
    /\ ops' = Del(ops, o)
    /\ UNCHANGED <<alive, handles>>

\* map.remove_if(&self.key, |_, (count, _)| *count <= 0); then `map`, the
\* upgraded Arc, goes out of scope: the DashMap is freed if it was the last
DropRemove(o) ==
    /\ o.pc = "drop_remove"
    /\ ~Locked(o.cur.key)
    /\ store' = IF alive \/ NumUpgraded > 1
                THEN remove_if(store, o.cur.key, DropRemove_closure(store))
                ELSE EmptyMap
    /\ ops' = Del(ops, o)
    /\ UNCHANGED <<alive, handles>>

(* ---- dropping the RcMap ------------------------------------------------ *)

DropStore_FreesAtOnce ==
    /\ alive
    /\ \A o \in Running : ~InRcMapCall(o)
    /\ alive' = FALSE
    /\ store' = EmptyMap
    /\ UNCHANGED <<handles, ops>>

\* the RcMap goes out of scope.  get and insert borrow &self, so none of them
\* is running; the DashMap is freed unless a drop holds an upgraded Arc
DropStore ==
    /\ alive
    /\ \A o \in Running : ~InRcMapCall(o)
    /\ alive' = FALSE
    /\ store' = IF NumUpgraded = 0 THEN EmptyMap ELSE store
    /\ UNCHANGED <<handles, ops>>

(* ---- specification ----------------------------------------------------- *)

\* a step that is not recorded
Plain(A) == A /\ UNCHANGED <<lin, hist>>

\* any number of threads calling get, insert and drop on one RcMap, which may
\* be dropped
Next ==
    \/ \E k \in CallKeys : Plain(GetAlter(k))
    \/ \E o \in Running : Plain(GetRead(o))
    \/ \E k \in CallKeys, v \in CallValues : Plain(InsertAlter(k, v))
    \/ \E o \in Running : Plain(InsertRead(o))
    \/ \E o \in Running : Plain(InsertWrite(o))
    \/ \E h \in BagToSet(handles) : Plain(DropUpgrade(h))
    \/ \E o \in Running : Plain(DropAlter(o))
    \/ \E o \in Running : Plain(DropRemove(o))
    \/ Plain(DropStore)

Spec == Init /\ [][Next]_vars

(* ---- the calls and returns of the steps --------------------------------- *)

Call(kind, k, v) == [ev |-> "call", kind |-> kind, key |-> k, val |-> v, ret |-> Ret("pending", 0)]
Return(kind, k, v, r) == [ev |-> "ret", kind |-> kind, key |-> k, val |-> v, ret |-> r]

\* what each step is, seen from the caller: the call it starts, the return it
\* ends with, both or nothing
GetAlterEv(k) == <<Call("get", k, 0)>>
GetReadEv(o) == <<Return("get", o.key, 0, ReadRet(o))>>
InsertAlterEv(k, v) == <<Call("insert", k, v)>>
InsertReadEv(o) ==
    IF o.key \in DOMAIN store THEN <<Return("insert", o.key, o.val, ReadRet(o))>> ELSE << >>
InsertWriteEv(o) == <<Return("insert", o.key, o.val, Ret("ok", o.val))>>
DropUpgradeEv(h) ==
    IF MapExists THEN <<Call("drop", h.key, 0)>>
    ELSE <<Call("drop", h.key, 0), Return("drop", h.key, 0, Ret("gone", 0))>>
DropAlterEv(o) == << >>
DropRemoveEv(o) == <<Return("drop", o.cur.key, 0, Ret("done", 0))>>
DropStoreEv == <<Return("drop_store", 0, 0, Ret("done", 0))>>

IsCall(e) == e.ev = "call"
NumCalls == Len(SelectSeq(hist, IsCall))

\* a step whose calls and returns are recorded in hist
Rec(A, evs) == A /\ hist' = hist \o evs /\ UNCHANGED lin

(* ---- scenario: one call at a time ---------------------------------------- *)

\* a call starts only when no call is in progress
SeqCanCall == Quiescent /\ NumCalls < MaxSeqCalls

NextSeq ==
    \/ \E k \in CallKeys : SeqCanCall /\ Rec(GetAlter(k), GetAlterEv(k))
    \/ \E o \in Running : Rec(GetRead(o), GetReadEv(o))
    \/ \E k \in CallKeys, v \in CallValues :
          SeqCanCall /\ Rec(InsertAlter(k, v), InsertAlterEv(k, v))
    \/ \E o \in Running : Rec(InsertRead(o), InsertReadEv(o))
    \/ \E o \in Running : Rec(InsertWrite(o), InsertWriteEv(o))
    \/ \E h \in BagToSet(handles) : SeqCanCall /\ Rec(DropUpgrade(h), DropUpgradeEv(h))
    \/ \E o \in Running : Rec(DropAlter(o), DropAlterEv(o))
    \/ \E o \in Running : Rec(DropRemove(o), DropRemoveEv(o))

SpecSeq == Init /\ [][NextSeq]_vars

(* ---- scenario: one insert, then concurrent gets of its key and drops ----- *)

InsertReturned == hist # << >> /\ \A o \in Running : KindOf(o) # "insert"
GetDropCanCall == InsertReturned /\ NumCalls < MaxGetDropCalls

NextGetDrop ==
    \/ \E k \in CallKeys :
          /\ GetDropCanCall
          /\ k = hist[1].key
          /\ Rec(GetAlter(k), GetAlterEv(k))
    \/ \E o \in Running : Rec(GetRead(o), GetReadEv(o))
    \/ \E k \in CallKeys, v \in CallValues :
          hist = << >> /\ Rec(InsertAlter(k, v), InsertAlterEv(k, v))
    \/ \E o \in Running : Rec(InsertRead(o), InsertReadEv(o))
    \/ \E o \in Running : Rec(InsertWrite(o), InsertWriteEv(o))
    \/ \E h \in BagToSet(handles) : GetDropCanCall /\ Rec(DropUpgrade(h), DropUpgradeEv(h))
    \/ \E o \in Running : Rec(DropAlter(o), DropAlterEv(o))
    \/ \E o \in Running : Rec(DropRemove(o), DropRemoveEv(o))

SpecGetDrop == Init /\ [][NextGetDrop]_vars

(* ---- scenario: concurrent calls, and the RcMap dropped ------------------- *)

TeardownCanCall == NumCalls < MaxTeardownCalls

NextTeardown ==
    \/ \E k \in CallKeys : TeardownCanCall /\ Rec(GetAlter(k), GetAlterEv(k))
    \/ \E o \in Running : Rec(GetRead(o), GetReadEv(o))
    \/ \E k \in CallKeys, v \in CallValues :
          TeardownCanCall /\ Rec(InsertAlter(k, v), InsertAlterEv(k, v))
    \/ \E o \in Running : Rec(InsertRead(o), InsertReadEv(o))
    \/ \E o \in Running : Rec(InsertWrite(o), InsertWriteEv(o))
    \/ \E h \in BagToSet(handles) : TeardownCanCall /\ Rec(DropUpgrade(h), DropUpgradeEv(h))
    \/ \E o \in Running : Rec(DropAlter(o), DropAlterEv(o))
    \/ \E o \in Running : Rec(DropRemove(o), DropRemoveEv(o))
    \/ Rec(DropStore, DropStoreEv)

SpecTeardown == Init /\ [][NextTeardown]_vars

(* ---- scenario: concurrent calls that contend for one key ------------------ *)

IsReturn(e) == e.ev = "ret"

\* a step whose returns (not its calls) are recorded in hist
RecReturns(A, evs) == A /\ hist' = hist \o SelectSeq(evs, IsReturn) /\ UNCHANGED lin

\* a call on key k starts: the calls returned and in progress are fewer than
\* the bound, and k is the key that all the calls so far are about
RaceCanCall(k) ==
    /\ Len(hist) + BagCardinality(ops) < MaxRaceCalls
    /\ UsedKeys \cap Keys \subseteq {k}

NextRace ==
    \/ \E k \in CallKeys : RaceCanCall(k) /\ RecReturns(GetAlter(k), GetAlterEv(k))
    \/ \E o \in Running : RecReturns(GetRead(o), GetReadEv(o))
    \/ \E k \in CallKeys, v \in CallValues :
          RaceCanCall(k) /\ RecReturns(InsertAlter(k, v), InsertAlterEv(k, v))
    \/ \E o \in Running : RecReturns(InsertRead(o), InsertReadEv(o))
    \/ \E o \in Running : RecReturns(InsertWrite(o), InsertWriteEv(o))
    \/ \E h \in BagToSet(handles) :
          RaceCanCall(h.key) /\ RecReturns(DropUpgrade(h), DropUpgradeEv(h))
    \/ \E o \in Running : RecReturns(DropAlter(o), DropAlterEv(o))
    \/ \E o \in Running : RecReturns(DropRemove(o), DropRemoveEv(o))

SpecRace == Init /\ [][NextRace]_vars

\* the steps of the calls in progress
RaceStep ==
    \/ \E o \in Running : RecReturns(GetRead(o), GetReadEv(o))
    \/ \E o \in Running : RecReturns(InsertRead(o), InsertReadEv(o))
    \/ \E o \in Running : RecReturns(InsertWrite(o), InsertWriteEv(o))
    \/ \E o \in Running : RecReturns(DropAlter(o), DropAlterEv(o))
    \/ \E o \in Running : RecReturns(DropRemove(o), DropRemoveEv(o))

\* the threads keep running: a call in progress that can take a step is not
\* left waiting for ever
SpecRaceFair == SpecRace /\ WF_vars(RaceStep)

(* ---- concurrent calls checked against their linearizations --------------- *)

RECURSIVE LinApply(_, _)
LinApply(L, evs) ==
    IF evs = << >> THEN L
    ELSE LET e == Head(evs)
         IN LinApply(IF e.ev = "call" THEN LinCall(L, e.kind, e.key, e.val)
                     ELSE LinReturn(L, e.kind, e.key, e.val, e.ret),
                     Tail(evs))

\* a step whose calls and returns are checked against the linearizations
Mon(A, evs) == A /\ lin' = LinApply(lin, evs) /\ UNCHANGED hist

\* any number of threads calling get, insert and drop on a live RcMap
NextLin ==
    \/ \E k \in CallKeys : Mon(GetAlter(k), GetAlterEv(k))
    \/ \E o \in Running : Mon(GetRead(o), GetReadEv(o))
    \/ \E k \in CallKeys, v \in CallValues : Mon(InsertAlter(k, v), InsertAlterEv(k, v))
    \/ \E o \in Running : Mon(InsertRead(o), InsertReadEv(o))
    \/ \E o \in Running : Mon(InsertWrite(o), InsertWriteEv(o))
    \/ \E h \in BagToSet(handles) : Mon(DropUpgrade(h), DropUpgradeEv(h))
    \/ \E o \in Running : Mon(DropAlter(o), DropAlterEv(o))
    \/ \E o \in Running : Mon(DropRemove(o), DropRemoveEv(o))

SpecLin == Init /\ [][NextLin]_vars

(* ---- scenario: one call at a time, checked against the atomic calls ------- *)

\* a step whose calls and returns are recorded and checked against the
\* linearizations (one call at a time: against the calls run as one step each)
RecMon(A, evs) == A /\ hist' = hist \o evs /\ lin' = LinApply(lin, evs)

NextSeqLin ==
    \/ \E k \in CallKeys : SeqCanCall /\ RecMon(GetAlter(k), GetAlterEv(k))
    \/ \E o \in Running : RecMon(GetRead(o), GetReadEv(o))
    \/ \E k \in CallKeys, v \in CallValues :
          SeqCanCall /\ RecMon(InsertAlter(k, v), InsertAlterEv(k, v))
    \/ \E o \in Running : RecMon(InsertRead(o), InsertReadEv(o))
    \/ \E o \in Running : RecMon(InsertWrite(o), InsertWriteEv(o))
    \/ \E h \in BagToSet(handles) : SeqCanCall /\ RecMon(DropUpgrade(h), DropUpgradeEv(h))
    \/ \E o \in Running : RecMon(DropAlter(o), DropAlterEv(o))
    \/ \E o \in Running : RecMon(DropRemove(o), DropRemoveEv(o))

SpecSeqLin == Init /\ [][NextSeqLin]_vars

(* ---- scenario: one call at a time, the map before each get remembered ----- *)

\* (history) the map m as the only remembered configuration
Snapshot(m) == {[abs |-> m, pend |-> EmptyBag]}

\* a first step of get or insert: recorded, and the map as it is before the
\* call is remembered in lin
RecSnap(A, evs) == A /\ hist' = hist \o evs /\ lin' = Snapshot(store)

NextCancel ==
    \/ \E k \in CallKeys : SeqCanCall /\ RecSnap(GetAlter(k), GetAlterEv(k))
    \/ \E o \in Running : Rec(GetRead(o), GetReadEv(o))
    \/ \E k \in CallKeys, v \in CallValues :
          SeqCanCall /\ RecSnap(InsertAlter(k, v), InsertAlterEv(k, v))
    \/ \E o \in Running : Rec(InsertRead(o), InsertReadEv(o))
    \/ \E o \in Running : Rec(InsertWrite(o), InsertWriteEv(o))
    \/ \E h \in BagToSet(handles) : SeqCanCall /\ Rec(DropUpgrade(h), DropUpgradeEv(h))
    \/ \E o \in Running : Rec(DropAlter(o), DropAlterEv(o))
    \/ \E o \in Running : Rec(DropRemove(o), DropRemoveEv(o))

SpecCancel == Init /\ [][NextCancel]_vars

(* ---- properties -------------------------------------------------------- *)

\* C1: at every quiescent point of a live RcMap, for every key, the number of
\* ObjectRefs of the key equals the count stored in its entry (absent: 0)
C1_CountEqualsHandles ==
    (Quiescent /\ alive) => \A k \in Keys : LiveHandles(k) = StoredCount(k)

\* C2: while the RcMap is alive, the key of every ObjectRef that exists has an
\* entry (an entry is removed only by the drop of the last ObjectRef of its key)
C2_HandleKeyPresent ==
    alive => \A k \in Keys : LiveHandles(k) > 0 => k \in DOMAIN store

\* C3: an insert returns Ok (its last statement, the write, is executed) only
\* when no ObjectRef of the key exists and the key has no entry to overwrite
C3_InsertNeverOkWhileHandleLive ==
    [][\A o \in Running :
          (o.pc = "ins_write" /\ ops' = Del(ops, o))
              => (LiveHandles(o.key) = 0 /\ o.key \notin DOMAIN store)]_vars

\* C4: every execution is linearizable (SpecLin): some order of the calls,
\* each taking effect atomically, explains every result returned so far, and
\* at a quiescent point it also explains the stored counts and values
C4_Linearizable ==
    /\ lin # {}
    /\ Quiescent => \E c \in lin : Entries(c.abs) = Entries(store)


(* ---- what the recorded calls say ---------------------------------------- *)

\* the calls on key k that have returned, in the order of their returns
Returned(k) == SelectSeq(hist, LAMBDA e : e.ev = "ret" /\ e.key = k)

Is(e, kind, tag) == e.kind = kind /\ e.ret.tag = tag

NumReturned(k, kind, tag) ==
    Len(SelectSeq(Returned(k), LAMBDA e : Is(e, kind, tag)))

\* C5: one insert, then gets and drops by concurrent threads (SpecGetDrop):
\* at every quiescent point the stored count of every key equals the number of
\* its ObjectRefs, and a key without ObjectRefs has no entry
C5_GetsAndDropsLeaveNoEntry ==
    Quiescent => \A k \in Keys :
        /\ StoredCount(k) = LiveHandles(k)
        /\ LiveHandles(k) = 0 => k \notin DOMAIN store

\* two gets of k were in progress at once, both returned an ObjectRef, these
\* two and the one of the insert have been dropped, and k has no entry
C5_Witness ==
    /\ Quiescent
    /\ \E k \in Keys :
        /\ k \notin DOMAIN store
        /\ \E i \in 1..(Len(hist) - 1) :
              /\ hist[i] = Call("get", k, 0)
              /\ hist[i + 1] = Call("get", k, 0)
        /\ NumReturned(k, "insert", "ok") = 1
        /\ NumReturned(k, "get", "some") = 2
        /\ NumReturned(k, "drop", "done") = 3

\* C6: one call at a time (SpecSeq): after insert(k) returned Ok and the next
\* call on k dropped an ObjectRef of k, k has no entry, and if the next call
\* on k is a get it returns None
C6_InsertThenDropRemoves ==
    \A k \in Keys :
        LET h == Returned(k)
        IN \A i \in 1..(Len(h) - 1) :
              (Is(h[i], "insert", "ok") /\ h[i + 1].kind = "drop") =>
                  /\ (i + 1 = Len(h) /\ Quiescent) => k \notin DOMAIN store
                  /\ (i + 2 <= Len(h) /\ h[i + 2].kind = "get")
                         => h[i + 2].ret.tag = "none"

C6_Witness ==
    \E k \in Keys :
        LET h == Returned(k)
        IN \E i \in 1..(Len(h) - 2) :
              /\ Is(h[i], "insert", "ok")
              /\ Is(h[i + 1], "drop", "done")
              /\ Is(h[i + 2], "get", "none")

\* C7: one call at a time (SpecSeq): after insert(k) returned Ok, get(k)
\* returned an ObjectRef and one of the two was dropped, k still has its entry;
\* after the other one was dropped too it has none, and a get(k) returns None
C7_SecondDropRemoves ==
    \A k \in Keys :
        LET h == Returned(k)
            n == Len(h)
        IN \A i \in 1..(n - 2) :
              (Is(h[i], "insert", "ok") /\ Is(h[i + 1], "get", "some")
                  /\ h[i + 2].kind = "drop") =>
                  /\ (i + 2 = n /\ Quiescent) => k \in DOMAIN store
                  /\ (i + 3 <= n /\ h[i + 3].kind = "drop") =>
                        /\ (i + 3 = n /\ Quiescent) => k \notin DOMAIN store
                        /\ (i + 4 <= n /\ h[i + 4].kind = "get")
                               => h[i + 4].ret.tag = "none"

C7_Witness ==
    \E k \in Keys :
        LET h == Returned(k)
        IN \E i \in 1..(Len(h) - 4) :
              /\ Is(h[i], "insert", "ok")
              /\ Is(h[i + 1], "get", "some")
              /\ Is(h[i + 2], "drop", "done")
              /\ Is(h[i + 3], "drop", "done")
              /\ Is(h[i + 4], "get", "none")

\* C8: when insert returns Err(AlreadyExists), the ObjectRef it carries holds
\* the value of the entry that is stored, and the insert has changed the map by
\* one increment of the count of that very entry and nothing else (it has not
\* written)
C8_AlreadyExistsCountsOnce ==
    [][\A o \in Running :
          (o.pc = "ins_read" /\ o.key \in DOMAIN store /\ ops' = Del(ops, o)) =>
              /\ handles' = Add(handles, ObjectRef(o.key, store[o.key].value, store[o.key].inc))
              /\ store' = store
              /\ o.bumped = store[o.key].inc]_vars

\* C9: dropping an ObjectRef when no strong reference to the DashMap is left
\* (the RcMap was dropped and no drop is in progress) returns at once: it
\* starts no further step and changes nothing of the map
C9_DropAfterTeardownIsNoop ==
    [][\A h \in BagToSet(handles) :
          (~alive /\ (\A o \in Running : ~IsUpgraded(o)) /\ handles' = Del(handles, h)) =>
              /\ ops' = ops
              /\ store' = store
              /\ alive' = alive]_vars

\* the RcMap was dropped and, later, the drop of an ObjectRef found it gone
C9_Witness ==
    /\ ~alive
    /\ \A o \in Running : ~IsUpgraded(o)
    /\ \E i \in 1..Len(hist) : \E j \in (i + 1)..Len(hist) :
          /\ hist[i].kind = "drop_store"
          /\ Is(hist[j], "drop", "gone")

\* C10: the alter and the remove_if of a drop only ever act on the incarnation
\* of the entry that the dropped ObjectRef was obtained from
C10_DropActsOnOwnIncarnation ==
    [][\A o \in Running :
          /\ (o.pc = "drop_alter" /\ store' = alter(store, o.cur.key, DropAlter_closure(store))
                 /\ store' # store)
                => store[o.cur.key].inc = o.cur.inc
          /\ (o.pc = "drop_remove" /\ ops' = Del(ops, o)
                 /\ o.cur.key \in DOMAIN store /\ o.cur.key \notin DOMAIN store'
                 /\ (alive \/ NumUpgraded > 1))
                => store[o.cur.key].inc = o.cur.inc]_vars

\* the call o is the only call in progress that is about the key of o
OnlyCallOn(o) ==
    /\ CopiesIn(o, ops) = 1
    /\ \A p \in Running : (p.key = o.key \/ p.cur.key = o.key) => p = o

\* no call about key k is in progress
NoCallOn(k) == \A p \in Running : p.key # k /\ p.cur.key # k

\* C11: whatever happened before, once no ObjectRef of k exists and no call on
\* k is in progress (the RcMap being alive), k has no entry; and an insert of k
\* that starts then (its alter found no entry) and runs with no ObjectRef of k
\* and no other call on k finds no entry of k, and returns Ok: it has written
\* the entry (1, value) and its ObjectRef holds k and the value
C11_InsertAfterReleaseSucceeds ==
    /\ [](\A k \in Keys : (alive /\ LiveHandles(k) = 0 /\ NoCallOn(k)) => k \notin DOMAIN store)
    /\ [][\A o \in Running :
          (KindOf(o) = "insert" /\ o.bumped = 0
              /\ alive /\ LiveHandles(o.key) = 0 /\ OnlyCallOn(o)) =>
              /\ o.key \notin DOMAIN store
              /\ ops' = Del(ops, o) =>
                    /\ o.pc = "ins_write"
                    /\ store'[o.key].count = 1
                    /\ store'[o.key].value = o.val
                    /\ \E h \in BagToSet(handles') :
                          /\ h.key = o.key /\ h.value = o.val
                          /\ handles' = Add(handles, h)]_vars

\* two inserts of k raced and both returned Ok, the two ObjectRefs have been
\* dropped, and then a third insert of k returned Ok with a new value
C11_Witness ==
    /\ Quiescent /\ alive
    /\ Len(hist) = 5
    /\ Is(hist[1], "insert", "ok") /\ Is(hist[2], "insert", "ok")
    /\ Is(hist[3], "drop", "done") /\ Is(hist[4], "drop", "done")
    /\ Is(hist[5], "insert", "ok")
    /\ hist[5].val # hist[1].val
    /\ \A i \in 1..5 : hist[i].key = hist[5].key
    /\ store[hist[5].key].count = 1
    /\ store[hist[5].key].value = hist[5].val

\* C12: a get of a key that has no entry changes nothing: its alter leaves
\* the map as it is, and its read, finding no entry, returns None (an
\* ordinary result), creates no ObjectRef and leaves the map as it is
C12_GetAbsentReturnsNone ==
    [][/\ \A k \in Keys :
            (k \notin DOMAIN store /\ ops' = Add(ops, Op("get_read", k, 0, NoRef, 0)))
                => (store' = store /\ handles' = handles)
       /\ \A o \in Running :
            (o.pc = "get_read" /\ o.key \notin DOMAIN store /\ ops' = Del(ops, o)) =>
                /\ store' = store
                /\ handles' = handles
                /\ hist' = Append(hist, Return("get", o.key, 0, Ret("none", 0)))]_vars

\* an insert of k returned Ok, its ObjectRef was dropped, and then a get of k
\* returned None and the map is empty
C12_Witness ==
    /\ Quiescent /\ alive
    /\ Len(hist) = 3
    /\ Is(hist[1], "insert", "ok")
    /\ Is(hist[2], "drop", "done")
    /\ Is(hist[3], "get", "none")
    /\ hist[3].key = hist[1].key
    /\ store = EmptyMap
    /\ handles = EmptyBag

\* C13: when insert(k, v) returns Ok (its write is executed), the entry of k
\* is (1, v), the other entries are as they were, and the ObjectRef returned
\* holds k and v
C13_InsertOkCreatesCountOne ==
    [][\A o \in Running :
          (o.pc = "ins_write" /\ ops' = Del(ops, o)) =>
              /\ DOMAIN store' = DOMAIN store \cup {o.key}
              /\ store'[o.key].count = 1
              /\ store'[o.key].value = o.val
              /\ \A j \in DOMAIN store \ {o.key} : store'[j] = store[j]
              /\ \E h \in BagToSet(handles') :
                    /\ h.key = o.key /\ h.value = o.val
                    /\ handles' = Add(handles, h)
              /\ hist' = Append(hist, Return("insert", o.key, o.val, Ret("ok", o.val)))]_vars

\* the first call, an insert on the empty map, has returned Ok: the map holds
\* its entry with count 1 and one ObjectRef exists
C13_Witness ==
    /\ Quiescent /\ alive
    /\ Len(hist) = 1
    /\ Is(hist[1], "insert", "ok")
    /\ DOMAIN store = {hist[1].key}
    /\ Entries(store)[hist[1].key] = <<1, hist[1].val>>
    /\ BagCardinality(handles) = 1
    /\ \A h \in BagToSet(handles) : h.key = hist[1].key /\ h.value = hist[1].val

\* C14: when get returns an ObjectRef, the increment that this get made (its
\* alter) was applied to the very entry whose value the ObjectRef holds
C14_GetCountsItsHandle ==
    [][\A o \in Running :
          (o.pc = "get_read" /\ o.key \in DOMAIN store /\ ops' = Del(ops, o)) =>
              /\ handles' = Add(handles, ObjectRef(o.key, store[o.key].value, store[o.key].inc))
              /\ o.bumped = store[o.key].inc]_vars

\* C15: a get or an insert never observes an entry whose count is <= 0: the
\* entry that its alter increments, and the entry that its read finds, has a
\* count >= 1
C15_NoZeroCountObserved ==
    [][/\ \A k \in DOMAIN store :
            (store' = alter(store, k, GetAlter_closure(store)) /\ store' # store)
                => store[k].count >= 1
       /\ \A o \in Running :
            (o.pc \in {"get_read", "ins_read"} /\ o.key \in DOMAIN store
                 /\ ops' = Del(ops, o))
                => store[o.key].count >= 1]_vars

\* C16: the stored count of an entry is never negative
C16_CountNeverNegative ==
    \A k \in DOMAIN store : store[k].count >= 0

\* C17: after any interleaving, when no call is in progress and every
\* ObjectRef has been dropped, the map of a live RcMap has no entry
C17_NoEntryLeaked ==
    (Quiescent /\ alive /\ handles = EmptyBag) => store = EmptyMap

\* two inserts of one key raced and both returned Ok (one entry, count 1, two
\* ObjectRefs), both ObjectRefs have been dropped, and the map is empty
C17_Witness ==
    /\ Quiescent /\ alive /\ handles = EmptyBag /\ store = EmptyMap
    /\ Len(hist) = 4
    /\ Is(hist[1], "insert", "ok") /\ Is(hist[2], "insert", "ok")
    /\ hist[1].key = hist[2].key
    /\ Is(hist[3], "drop", "done") /\ Is(hist[4], "drop", "done")

\* C18: once the RcMap has been dropped and no drop holds an upgraded
\* reference, the DashMap is gone (freed with all its entries), however many
\* ObjectRefs still exist
C18_HandlesDoNotKeepMapAlive ==
    (~alive /\ \A o \in Running : ~IsUpgraded(o)) => store = EmptyMap

\* an insert returned Ok, the RcMap was dropped while the ObjectRef existed,
\* and the ObjectRef still exists
C18_Witness ==
    /\ ~alive
    /\ Quiescent
    /\ handles # EmptyBag
    /\ store = EmptyMap
    /\ \E i \in 1..Len(hist) : \E j \in (i + 1)..Len(hist) :
          /\ Is(hist[i], "insert", "ok")
          /\ hist[j].kind = "drop_store"
          /\ \E h \in BagToSet(handles) : h.key = hist[i].key

\* C19: no step changes an ObjectRef that exists: every step leaves each
\* ObjectRef as it is, key and value, or is the start of its drop, which only
\* takes it away (and works on it unchanged)
C19_HandleValueFixed ==
    [][\A h \in BagToSet(handles) :
          \/ CopiesIn(h, handles') >= CopiesIn(h, handles)
          \/ /\ handles' = Del(handles, h)
             /\ \/ ops' = Add(ops, Op("drop_alter", 0, 0, h, 0))
                \/ ops' = ops]_vars

\* an ObjectRef of k holds a value that is not the value stored for k any
\* more: another insert of k has written a different value since
C19_Witness ==
    /\ alive
    /\ \E h \in BagToSet(handles) :
          /\ h.key \in DOMAIN store
          /\ store[h.key].value # h.value
          /\ store[h.key].inc # h.inc

OpKey(o) == IF KindOf(o) = "drop" THEN o.cur.key ELSE o.key

\* the keys whose entry, or whose presence, the step changes
ChangedKeys ==
    {k \in Keys :
        \/ (k \in DOMAIN store) # (k \in DOMAIN store')
        \/ k \in DOMAIN store /\ k \in DOMAIN store' /\ store'[k] # store[k]}

\* the step is a step of a call on key k: its first, its last or one between
StepOn(k) ==
    \/ \E n \in BagToSet(ops') : OpKey(n) = k /\ ops' = Add(ops, n)
    \/ \E o \in Running :
          /\ OpKey(o) = k
          /\ \/ ops' = Del(ops, o)
             \/ \E n \in BagToSet(ops') : OpKey(n) = k /\ ops' = Add(Del(ops, o), n)

\* C21: a step after which the DashMap still exists changes the entry of at
\* most one key, the key of the call that takes the step: the entries of the
\* other keys, and their presence, are as before
C21_OtherKeysUnchanged ==
    [][(alive' \/ \E o \in BagToSet(ops') : IsUpgraded(o)) =>
          /\ Cardinality(ChangedKeys) <= 1
          /\ \A k \in ChangedKeys : StepOn(k)]_vars

\* two keys were inserted and then a get of the first returned an ObjectRef:
\* the first has count 2 and the second still count 1 and its value
C21_Witness ==
    /\ Quiescent /\ alive
    /\ \E i, j, l \in 1..Len(hist) :
          /\ i < j /\ j < l
          /\ Is(hist[i], "insert", "ok") /\ Is(hist[j], "insert", "ok")
          /\ Is(hist[l], "get", "some")
          /\ hist[i].key # hist[j].key
          /\ hist[l].key = hist[i].key
          /\ DOMAIN store = {hist[i].key, hist[j].key}
          /\ store[hist[i].key].count = 2
          /\ Entries(store)[hist[j].key] = <<1, hist[j].val>>

C24_OneInsertWins ==
    (hist # << >> /\ \A i \in 1..Len(hist) : hist[i].kind = "insert") =>
        \A k \in Keys :
            /\ NumReturned(k, "insert", "ok") <= 1
            /\ \A i, j \in 1..Len(hist) :
                  (/\ hist[i].key = k /\ hist[j].key = k
                   /\ Is(hist[i], "insert", "ok") /\ Is(hist[j], "insert", "exists"))
                      => hist[j].ret.value = hist[i].val
            /\ Quiescent => StoredCount(k) = LiveHandles(k)

\* the holders of the entry of k: the ObjectRefs of k that exist, the gets
\* (of get and of insert) that have incremented the entry and not returned
\* yet, and the drops of an ObjectRef of k that have not decremented yet
Holders(k) ==
    LiveHandles(k)
    + CountIn(ops, {o \in Running :
                      /\ o.pc \in {"get_read", "ins_read"} /\ o.key = k
                      /\ k \in DOMAIN store /\ o.bumped = store[k].inc})
    + CountIn(ops, {o \in Running : o.pc = "drop_alter" /\ o.cur.key = k})

\* C25: in every state the stored count of a key is at most the number of
\* the holders of its entry
C25_CountNeverOverCounts ==
    \A k \in DOMAIN store : store[k].count <= Holders(k)

\* after two racing inserts both returned Ok, the count (1) is below the
\* number of holders (two ObjectRefs)
C25_Witness ==
    /\ Quiescent
    /\ Len(hist) = 2
    /\ Is(hist[1], "insert", "ok") /\ Is(hist[2], "insert", "ok")
    /\ \E k \in DOMAIN store : store[k].count = 1 /\ Holders(k) = 2

AcquiredThenReleased(k, kind, tag) ==
    LET n == Len(hist)
    IN /\ Quiescent
       /\ n >= 4
       /\ hist[n - 3].ev = "call" /\ hist[n - 3].kind = kind /\ hist[n - 3].key = k
       /\ hist[n - 2].ev = "ret" /\ Is(hist[n - 2], kind, tag) /\ hist[n - 2].key = k
       /\ hist[n - 1] = Call("drop", k, 0)
       /\ hist[n] = Return("drop", k, 0, Ret("done", 0))

\* C27: one call at a time (SpecCancel): after get(k) returned an ObjectRef
\* and an ObjectRef of k was dropped next, and after insert(k, v) returned
\* AlreadyExists and an ObjectRef of k was dropped next, the map is exactly
\* as it was before the get / the insert
C27_AcquireReleaseCancel ==
    \A k \in Keys :
        (AcquiredThenReleased(k, "get", "some") \/ AcquiredThenReleased(k, "insert", "exists"))
            => lin = Snapshot(store)

\* after insert(k) returned Ok: a get of k and a drop, then a failed insert of
\* k and a drop, have left the entry with its count, 1
C27_Witness ==
    \E k \in DOMAIN store :
        /\ AcquiredThenReleased(k, "insert", "exists")
        /\ Len(hist) = 10
        /\ hist[3] = Call("get", k, 0) /\ Is(hist[4], "get", "some")
        /\ hist[5] = Call("drop", k, 0) /\ Is(hist[6], "drop", "done")
        /\ store[k].count = 1
        /\ LiveHandles(k) = 1

\* C28: the steps of a drop that find no entry of the key of the ObjectRef,
\* the RcMap being alive, change nothing: alter and remove_if leave the map as
\* it is, and the drop returns
C28_DropOfAbsentKeyNoop ==
    [][\A o \in Running :
          /\ (/\ alive /\ o.pc = "drop_alter" /\ o.cur.key \notin DOMAIN store
              /\ ops' = Add(Del(ops, o), [o EXCEPT !.pc = "drop_remove"]))
                => (store' = store /\ handles' = handles /\ alive')
          /\ (/\ alive /\ o.pc = "drop_remove" /\ o.cur.key \notin DOMAIN store
              /\ ops' = Del(ops, o))
                => /\ store' = store /\ handles' = handles /\ alive'
                   /\ hist' = Append(hist, Return("drop", o.cur.key, 0, Ret("done", 0)))]_vars

\* two racing inserts of one key both returned Ok, the drop of one ObjectRef
\* has removed the entry, and the drop of the other one is in progress on a
\* key that has no entry
C28_Witness ==
    /\ alive
    /\ store = EmptyMap
    /\ Len(hist) = 3
    /\ Is(hist[1], "insert", "ok") /\ Is(hist[2], "insert", "ok")
    /\ Is(hist[3], "drop", "done")
    /\ \E o \in Running : o.pc = "drop_remove" /\ o.cur.key = hist[3].key

\* C29: the RcMap dropped while ObjectRefs are dropped: the DashMap stays as
\* it is when the RcMap is dropped while a drop holds an upgraded reference,
\* and is freed otherwise; a drop that has upgraded goes on after the RcMap is
\* gone, decrements and conditionally removes on the map that still exists,
\* and returns, and the DashMap is freed when the last such drop returns; a
\* drop that starts when the DashMap is gone returns at once
C29_DropRacingTeardown ==
    [][/\ (alive /\ ~alive') =>
             store' = IF \E o \in Running : IsUpgraded(o) THEN store ELSE EmptyMap
       /\ \A o \in Running :
             /\ (/\ ~alive /\ o.pc = "drop_alter"
                 /\ ops' = Add(Del(ops, o), [o EXCEPT !.pc = "drop_remove"]))
                   => store' = alter(store, o.cur.key, DropAlter_closure(store))
             /\ (~alive /\ o.pc = "drop_remove" /\ ops' = Del(ops, o)) =>
                   /\ hist' = Append(hist, Return("drop", o.cur.key, 0, Ret("done", 0)))
                   /\ store' = IF \E p \in BagToSet(ops') : IsUpgraded(p)
                               THEN remove_if(store, o.cur.key, DropRemove_closure(store))
                               ELSE EmptyMap
       /\ \A h \in BagToSet(handles) :
             (/\ ~alive /\ (\A o \in Running : ~IsUpgraded(o))
              /\ handles' = Del(handles, h))
                 => /\ ops' = ops /\ store' = store
                    /\ hist' = hist \o <<Call("drop", h.key, 0),
                                          Return("drop", h.key, 0, Ret("gone", 0))>>]_vars

\* a drop started, the RcMap was dropped while it ran, the drop returned, and
\* the DashMap is gone
C29_Witness ==
    /\ ~alive /\ Quiescent /\ store = EmptyMap
    /\ \E i, j, l \in 1..Len(hist) :
          /\ i < j /\ j < l
          /\ hist[i].ev = "call" /\ hist[i].kind = "drop"
          /\ hist[j].kind = "drop_store"
          /\ Is(hist[l], "drop", "done") /\ hist[l].key = hist[i].key
          /\ \A m \in (i + 1)..(l - 1) : ~(hist[m].kind = "drop" /\ hist[m].key = hist[i].key)

\* C30: as long as a key has an entry (from the insert that creates it to
\* its removal), the value stored for the key does not change: no step
\* changes the value of an entry that is there before and after it
C30_StoredValueFixed ==
    [][\A k \in DOMAIN store \cap DOMAIN store' :
          store'[k].value = store[k].value]_vars

====
